---------------------------- MODULE Spec2Model ----------------------------
(***************************************************************************)
(* calc_pixmap of stcal.alignment.resample_utils as a state machine.       *)
(*                                                                         *)
(* One call of calc_pixmap(in_wcs, out_wcs, shape) is run statement by     *)
(* statement: bounding box (lines 27-32), grid (line 34), construction of  *)
(* the reprojection callable, its evaluation over the grid and the         *)
(* stacking of the two result arrays (line 35), return (line 36).  The     *)
(* frame of a finished call is discarded and another call may follow; the  *)
(* only thing that outlives a call is what the module-level logger was     *)
(* last handed (logged); seen remembers, for the length of a call, what    *)
(* that record was when the call was entered.                              *)
(*                                                                         *)
(* Representation.  A Python value that may be None, a tuple or a missing  *)
(* attribute is a record [t, v].  A float is a record [nan, v] (v an       *)
(* integer, pixel centres being integers).  A bounding box is kept in      *)
(* units of half a pixel: the range (-0.5, n - 0.5) is <<-1, 2*n - 1>>.    *)
(* A 2-D array is a sequence of rows, a[i][j] here being a[i-1, j-1] in    *)
(* the program.                                                            *)
(***************************************************************************)
EXTENDS Integers, Sequences, FiniteSets

VARIABLES pc, in_wcs, out_wcs, shape, bb, grid, f, mapped, outcome, calls, logged, seen

vars == <<pc, in_wcs, out_wcs, shape, bb, grid, f, mapped, outcome, calls, logged, seen>>

(***************************************************************************)
(* Bounds of the model.                                                    *)
(***************************************************************************)
\* largest number of rows or of columns of a well-formed shape
MaxDim == 3
\* number of array cells the modelled machine can allocate
MemCells == 1000

HugeDim == MemCells + 1

(***************************************************************************)
(* Python values.                                                          *)
(***************************************************************************)
None_ == [t |-> "None", v |-> <<>>]

Absent == [t |-> "absent", v |-> <<>>]

Tup(s) == [t |-> "tuple", v |-> s]

F(n) == [nan |-> FALSE, v |-> n]

NaN == [nan |-> TRUE, v |-> 0]

NoErr == [type |-> "", origin |-> ""]

Ok(x) == [ok |-> TRUE, val |-> x, err |-> NoErr]

Fail(type, origin) == [ok |-> FALSE, val |-> <<>>, err |-> [type |-> type, origin |-> origin]]

\* `if shape:` -- None and the empty tuple are false, any other tuple is true
Truthy(x) == x.t = "tuple" /\ Len(x.v) > 0

(***************************************************************************)
(* The transforms handed to calc_pixmap.  A transform is a translation of  *)
(* the pixel frame by crval; kind says what it is able to do:              *)
(*   "ok"            forward and inverse mappings                          *)
(*   "masked"        the inverse yields not-a-number off the low edge      *)
(*   "noninvertible" the inverse raises                                    *)
(*   "unsupported"   not an object reproject accepts                       *)
(* pixel_shape is the declared extent: a tuple, None, or no such attribute *)
(***************************************************************************)
Pairs == {<<r, c>> : r \in 1..MaxDim, c \in 1..MaxDim}

PixelShapes == {Absent, None_} \cup {Tup(p) : p \in Pairs}

CrVals == {<<0, 0>>, <<1, 2>>}

Kinds == {"ok", "masked", "noninvertible", "unsupported"}

WCSs == [pixel_shape : PixelShapes, crval : CrVals, kind : Kinds]

\* The input transform is used only through its forward mapping, and the
\* pixel_shape of the output transform not at all: fewer of them are enumerated.
InWCSs == {w \in WCSs : w.kind \in {"ok", "unsupported"}}

OutWCSs == {w \in WCSs : w.pixel_shape \in {None_, Tup(<<1, 1>>)}}

\* The shape argument: omitted, empty, too short, well-formed, or too large
\* for the grid to be allocated.
Shapes == {None_, Tup(<<>>), Tup(<<1>>), Tup(<<HugeDim, HugeDim>>)} \cup {Tup(p) : p \in Pairs}

NoWCS == [pixel_shape |-> Absent, crval |-> <<0, 0>>, kind |-> "none"]

NoFn == [wcs1 |-> NoWCS, wcs2 |-> NoWCS]

NoLog == [msg |-> "", bb |-> <<>>]

Pending == [returned |-> FALSE, val |-> <<>>, err |-> NoErr]

(***************************************************************************)
(* Collaborators.                                                          *)
(***************************************************************************)
\* util.wcs_bbox_from_shape: ((-0.5, shape[-1] - 0.5), (-0.5, shape[-2] - 0.5)),
\* x range first; a shape that cannot be indexed twice is an error.
wcs_bbox_from_shape(s) ==
    IF s.t # "tuple" THEN Fail("TypeError", "wcs_bbox_from_shape")
    ELSE IF Len(s.v) < 2 THEN Fail("IndexError", "wcs_bbox_from_shape")
    ELSE Ok(<< <<-1, 2 * s.v[Len(s.v)] - 1>>, <<-1, 2 * s.v[Len(s.v) - 1] - 1>> >>)

\* gwcs.wcstools.grid_from_bounding_box(bb), step 1, center True: per axis
\* the pixel centres floor(lo + 0.5) .. ceil(hi - 0.5); grid[0] holds x
\* (constant down a column), grid[1] holds y (constant along a row).
grid_from_bounding_box(b) ==
    LET x0 == (b[1][1] + 1) \div 2
        x1 == b[1][2] \div 2
        y0 == (b[2][1] + 1) \div 2
        y1 == b[2][2] \div 2
        nx == IF x1 >= x0 THEN x1 - x0 + 1 ELSE 0
        ny == IF y1 >= y0 THEN y1 - y0 + 1 ELSE 0
    IN  IF nx * ny > MemCells THEN Fail("MemoryError", "grid_from_bounding_box")
        ELSE Ok(<< [i \in 1..ny |-> [j \in 1..nx |-> F(x0 + j - 1)]],
                   [i \in 1..ny |-> [j \in 1..nx |-> F(y0 + i - 1)]] >>)

pixel_to_world(w, x, y) ==
    IF x.nan \/ y.nan THEN <<NaN, NaN>>
    ELSE <<F(x.v + w.crval[1]), F(y.v + w.crval[2])>>

world_to_pixel(w, wx, wy) ==
    IF wx.nan \/ wy.nan THEN <<NaN, NaN>>
    ELSE LET px == wx.v - w.crval[1]
             py == wy.v - w.crval[2]
         IN  IF w.kind = "masked" /\ (px < 0 \/ py < 0) THEN <<NaN, NaN>>
             ELSE <<F(px), F(py)>>

\* util.reproject(wcs1, wcs2): the callable taking pixel coordinates of the
\* frame of wcs1 to pixel coordinates of the frame of wcs2 ("pixel grid map
\* from input frame to output frame", line 11).
reproject(wcs1, wcs2) ==
    IF wcs1.kind = "unsupported" \/ wcs2.kind = "unsupported"
    THEN Fail("TypeError", "reproject")
    ELSE Ok([wcs1 |-> wcs1, wcs2 |-> wcs2])

\* the callable reproject returned, applied to two arrays of one shape
_reproject(fn, x, y) ==
    IF fn.wcs2.kind = "noninvertible" THEN Fail("NotImplementedError", "_reproject")
    ELSE LET at(i, j) == LET w == pixel_to_world(fn.wcs1, x[i][j], y[i][j])
                         IN  world_to_pixel(fn.wcs2, w[1], w[2])
         IN  Ok(<< [i \in 1..Len(x) |-> [j \in 1..Len(x[i]) |-> at(i, j)[1]]],
                   [i \in 1..Len(x) |-> [j \in 1..Len(x[i]) |-> at(i, j)[2]]] >>)

\* np.dstack of two 2-D arrays: a new trailing axis of length 2
dstack(tup) ==
    [i \in 1..Len(tup[1]) |-> [j \in 1..Len(tup[1][i]) |-> <<tup[1][i][j], tup[2][i][j]>>]]

(***************************************************************************)
(* calc_pixmap, statement by statement.                                    *)
(***************************************************************************)
\* SelectExtent with the shape argument handed on reversed
SelectExtentReversed(w, s) ==
    IF Truthy(s)
    THEN [ok |-> TRUE, val |-> Tup([k \in 1..Len(s.v) |-> s.v[Len(s.v) + 1 - k]]), err |-> NoErr,
          msg |-> "Bounding box from data shape"]
    ELSE IF w.pixel_shape = Absent
         THEN [ok |-> FALSE, val |-> None_, err |-> [type |-> "AttributeError", origin |-> "calc_pixmap"], msg |-> ""]
         ELSE [ok |-> TRUE, val |-> w.pixel_shape, err |-> NoErr, msg |-> "Bounding box from WCS"]

\* SelectExtent with pixel_shape read as (columns, rows) and turned round
SelectExtentXY(w, s) ==
    IF Truthy(s) THEN [ok |-> TRUE, val |-> s, err |-> NoErr, msg |-> "Bounding box from data shape"]
    ELSE IF w.pixel_shape = Absent
         THEN [ok |-> FALSE, val |-> None_, err |-> [type |-> "AttributeError", origin |-> "calc_pixmap"], msg |-> ""]
         ELSE IF w.pixel_shape.t = "tuple"
              THEN [ok |-> TRUE,
                    val |-> Tup([k \in 1..Len(w.pixel_shape.v) |-> w.pixel_shape.v[Len(w.pixel_shape.v) + 1 - k]]),
                    err |-> NoErr, msg |-> "Bounding box from WCS"]
              ELSE [ok |-> TRUE, val |-> w.pixel_shape, err |-> NoErr, msg |-> "Bounding box from WCS"]

\* lines 27-31: what is handed to wcs_bbox_from_shape, and the log message.
\* Reading in_wcs.pixel_shape fails when there is no such attribute.
SelectExtent(w, s) ==
    IF Truthy(s) THEN [ok |-> TRUE, val |-> s, err |-> NoErr, msg |-> "Bounding box from data shape"]
    ELSE IF w.pixel_shape = Absent
         THEN [ok |-> FALSE, val |-> None_, err |-> [type |-> "AttributeError", origin |-> "calc_pixmap"], msg |-> ""]
         ELSE [ok |-> TRUE, val |-> w.pixel_shape, err |-> NoErr, msg |-> "Bounding box from WCS"]

\* BBoxStep that takes the bounding box of the last debug record, when there
\* is one and no shape is given, instead of deriving it again
BBoxStepCached(w, s, lg) ==
    LET sel == SelectExtent(w, s)
        r == wcs_bbox_from_shape(sel.val)
    IN  IF ~sel.ok THEN [ok |-> FALSE, bb |-> <<>>, err |-> sel.err, calls |-> <<>>, log |-> lg]
        ELSE IF ~Truthy(s) /\ lg # NoLog
             THEN [ok |-> TRUE, bb |-> lg.bb, err |-> NoErr, calls |-> <<>>, log |-> lg]
             ELSE IF ~r.ok
                  THEN [ok |-> FALSE, bb |-> <<>>, err |-> r.err,
                        calls |-> <<[fn |-> "wcs_bbox_from_shape", raised |-> r.err]>>, log |-> lg]
                  ELSE [ok |-> TRUE, bb |-> r.val, err |-> NoErr,
                        calls |-> <<[fn |-> "wcs_bbox_from_shape", raised |-> NoErr]>>,
                        log |-> [msg |-> sel.msg, bb |-> r.val]]

\* lines 27-32: bb and the debug record; lg is the logger's last record.
BBoxStep(w, s, lg) ==
    LET sel == SelectExtent(w, s)
        r == wcs_bbox_from_shape(sel.val)
    IN  IF ~sel.ok THEN [ok |-> FALSE, bb |-> <<>>, err |-> sel.err, calls |-> <<>>, log |-> lg]
        ELSE IF ~r.ok
             THEN [ok |-> FALSE, bb |-> <<>>, err |-> r.err,
                   calls |-> <<[fn |-> "wcs_bbox_from_shape", raised |-> r.err]>>, log |-> lg]
             ELSE [ok |-> TRUE, bb |-> r.val, err |-> NoErr,
                   calls |-> <<[fn |-> "wcs_bbox_from_shape", raised |-> NoErr]>>,
                   log |-> [msg |-> sel.msg, bb |-> r.val]]

\* line 35: reproject(in_wcs, out_wcs)
ReprojectArgs(w_in, w_out) == <<w_in, w_out>>

\* GridArgs with the two arrays exchanged
GridArgsSwapped(g) == <<g[2], g[1]>>

\* line 35: (grid[0], grid[1])
GridArgs(g) == <<g[1], g[2]>>

\* line 35: np.dstack(...) of what the callable returned
StackStepClipped(m) ==
    LET clip(x) == IF x.nan \/ x.v < 0 THEN F(0) ELSE x
    IN  dstack(<< [i \in 1..Len(m[1]) |-> [j \in 1..Len(m[1][i]) |-> clip(m[1][i][j])]],
                  [i \in 1..Len(m[2]) |-> [j \in 1..Len(m[2][i]) |-> clip(m[2][i][j])]] >>)

StackStep(m) == dstack(<<m[1], m[2]>>)

\* Raise with the exception caught and an empty map handed back
RaiseSwallowed(e) == [returned |-> TRUE, val |-> <<>>, err |-> NoErr]

\* Raise with the exception replaced by one of calc_pixmap's own
RaiseWrapped(e) == [returned |-> FALSE, val |-> <<>>, err |-> [type |-> "RuntimeError", origin |-> "calc_pixmap"]]

\* no statement of lines 27-36 is inside a try: an exception leaves the call
Raise(e) == [returned |-> FALSE, val |-> <<>>, err |-> e]

\* line 36
Return(x) == [returned |-> TRUE, val |-> x, err |-> NoErr]

\* After with the callable constructed before the grid is generated
AfterReprojectFirst(step) ==
    CASE step = "bbox" -> "reproject"
      [] step = "reproject" -> "grid"
      [] step = "grid" -> "eval"
      [] step = "eval" -> "stack"
      [] OTHER -> "done"

\* the order of the statements of lines 27-36
After(step) ==
    CASE step = "bbox" -> "grid"
      [] step = "grid" -> "reproject"
      [] step = "reproject" -> "eval"
      [] step = "eval" -> "stack"
      [] OTHER -> "done"

\* lines 10-36 as one function of the arguments and of the logger's record
CalcPixmap(w_in, w_out, s, lg) ==
    LET b == BBoxStep(w_in, s, lg) IN
    IF ~b.ok THEN Raise(b.err) ELSE
    LET g == grid_from_bounding_box(b.bb) IN
    IF ~g.ok THEN Raise(g.err) ELSE
    LET ra == ReprojectArgs(w_in, w_out)
        r == reproject(ra[1], ra[2]) IN
    IF ~r.ok THEN Raise(r.err) ELSE
    LET ga == GridArgs(g.val)
        m == _reproject(r.val, ga[1], ga[2]) IN
    IF ~m.ok THEN Raise(m.err) ELSE Return(StackStep(m.val))

(***************************************************************************)
(* The state machine.                                                      *)
(***************************************************************************)
Init ==
    /\ pc = "idle"
    /\ in_wcs = NoWCS
    /\ out_wcs = NoWCS
    /\ shape = None_
    /\ bb = <<>>
    /\ grid = <<>>
    /\ f = NoFn
    /\ mapped = <<>>
    /\ outcome = Pending
    /\ calls = <<>>
    /\ logged = NoLog
    /\ seen = NoLog

\* a caller invokes calc_pixmap(w_in, w_out, s)
Call ==
    /\ pc = "idle"
    /\ \E w_in \in InWCSs, w_out \in OutWCSs, s \in Shapes :
         /\ in_wcs' = w_in
         /\ out_wcs' = w_out
         /\ shape' = s
    /\ pc' = "bbox"
    /\ seen' = logged
    /\ UNCHANGED <<bb, grid, f, mapped, outcome, calls, logged>>

\* lines 27-32
BBox ==
    /\ pc = "bbox"
    /\ LET b == BBoxStep(in_wcs, shape, logged)
       IN  /\ calls' = calls \o b.calls
           /\ logged' = b.log
           /\ IF b.ok
              THEN /\ bb' = b.bb
                   /\ pc' = After("bbox")
                   /\ UNCHANGED outcome
              ELSE /\ outcome' = Raise(b.err)
                   /\ pc' = "done"
                   /\ UNCHANGED bb
    /\ UNCHANGED <<in_wcs, out_wcs, shape, grid, f, mapped, seen>>

\* line 34
Grid ==
    /\ pc = "grid"
    /\ LET g == grid_from_bounding_box(bb)
       IN  /\ calls' = Append(calls, [fn |-> "grid_from_bounding_box", raised |-> g.err])
           /\ IF g.ok
              THEN /\ grid' = g.val
                   /\ pc' = After("grid")
                   /\ UNCHANGED outcome
              ELSE /\ outcome' = Raise(g.err)
                   /\ pc' = "done"
                   /\ UNCHANGED grid
    /\ UNCHANGED <<in_wcs, out_wcs, shape, bb, f, mapped, logged, seen>>

\* line 35, util.reproject(in_wcs, out_wcs)
Reproject ==
    /\ pc = "reproject"
    /\ LET ra == ReprojectArgs(in_wcs, out_wcs)
           r == reproject(ra[1], ra[2])
       IN  /\ calls' = Append(calls, [fn |-> "reproject", raised |-> r.err])
           /\ IF r.ok
              THEN /\ f' = r.val
                   /\ pc' = After("reproject")
                   /\ UNCHANGED outcome
              ELSE /\ outcome' = Raise(r.err)
                   /\ pc' = "done"
                   /\ UNCHANGED f
    /\ UNCHANGED <<in_wcs, out_wcs, shape, bb, grid, mapped, logged, seen>>

\* line 35, the callable applied to (grid[0], grid[1])
Eval ==
    /\ pc = "eval"
    /\ LET ga == GridArgs(grid)
           m == _reproject(f, ga[1], ga[2])
       IN  /\ calls' = Append(calls, [fn |-> "_reproject", raised |-> m.err])
           /\ IF m.ok
              THEN /\ mapped' = m.val
                   /\ pc' = After("eval")
                   /\ UNCHANGED outcome
              ELSE /\ outcome' = Raise(m.err)
                   /\ pc' = "done"
                   /\ UNCHANGED mapped
    /\ UNCHANGED <<in_wcs, out_wcs, shape, bb, grid, f, logged, seen>>

\* lines 35-36, np.dstack and return
Stack ==
    /\ pc = "stack"
    /\ outcome' = Return(StackStep(mapped))
    /\ pc' = After("stack")
    /\ UNCHANGED <<in_wcs, out_wcs, shape, bb, grid, f, mapped, calls, logged, seen>>

\* the caller has the outcome; the frame is gone, the logger's record stays
Exit ==
    /\ pc = "done"
    /\ pc' = "idle"
    /\ in_wcs' = NoWCS
    /\ out_wcs' = NoWCS
    /\ shape' = None_
    /\ bb' = <<>>
    /\ grid' = <<>>
    /\ f' = NoFn
    /\ mapped' = <<>>
    /\ outcome' = Pending
    /\ calls' = <<>>
    /\ seen' = NoLog
    /\ UNCHANGED logged

Next == Call \/ BBox \/ Grid \/ Reproject \/ Eval \/ Stack \/ Exit

Spec == Init /\ [][Next]_vars

(***************************************************************************)
(* Properties.                                                             *)
(***************************************************************************)
\* the extent the call works on: the shape argument when it counts as
\* given, else the extent in_wcs declares
Extent == IF Truthy(shape) THEN shape ELSE in_wcs.pixel_shape

IsPair(s) == s.t = "tuple" /\ Len(s.v) = 2

Returned == pc = "done" /\ outcome.returned

\* every error a collaborator can raise
CollaboratorErrors ==
    { Fail("TypeError", "wcs_bbox_from_shape").err, Fail("IndexError", "wcs_bbox_from_shape").err,
      Fail("MemoryError", "grid_from_bounding_box").err, Fail("TypeError", "reproject").err,
      Fail("NotImplementedError", "_reproject").err }

\* the collaborators in the order of the statements that invoke them
Order == <<"wcs_bbox_from_shape", "grid_from_bounding_box", "reproject", "_reproject">>

\* C1 -- Shape fidelity: a call given a well-formed shape (r, c) that returns,
\* returns an array of shape (r, c, 2); the bounding box it worked on spans
\* x in [-0.5, c - 0.5] and y in [-0.5, r - 0.5] and the grid holds the
\* integer pixel centres 0..c-1 by 0..r-1.
ShapeFidelity ==
    (Returned /\ IsPair(shape)) =>
        LET r == shape.v[1]
            c == shape.v[2]
        IN  /\ bb = << <<-1, 2 * c - 1>>, <<-1, 2 * r - 1>> >>
            /\ Len(grid) = 2
            /\ \A k \in 1..2 : Len(grid[k]) = r /\ \A i \in 1..r : Len(grid[k][i]) = c
            /\ \A i \in 1..r : \A j \in 1..c : grid[1][i][j] = F(j - 1) /\ grid[2][i][j] = F(i - 1)
            /\ Len(outcome.val) = r
            /\ \A i \in 1..r : Len(outcome.val[i]) = c
            /\ \A i \in 1..r : \A j \in 1..c : Len(outcome.val[i][j]) = 2

\* a call with shape (2, 3) and an input transform declaring (3, 2) has returned
ShapeFidelityWitness ==
    /\ Returned
    /\ shape = Tup(<<2, 3>>)
    /\ in_wcs.pixel_shape = Tup(<<3, 2>>)

\* C2 -- Missing-extent failure, as claimed: a call with shape None and an
\* input transform whose pixel_shape is missing or None fails with an error
\* of calc_pixmap's own, none of the collaborators' errors, found before any
\* collaborator is invoked, and returns no map.
MissingExtentFailure ==
    (pc = "done" /\ shape = None_ /\ in_wcs.pixel_shape \in {Absent, None_}) =>
        /\ ~outcome.returned
        /\ outcome.err # NoErr
        /\ outcome.err \notin CollaboratorErrors
        /\ calls = <<>>

\* C3 -- Shape override, as claimed: in a call given a shape argument
\* (anything but None) the bounding box, once there, is the one
\* wcs_bbox_from_shape derives from that argument, logged as coming from the
\* data shape; the extent the input transform declares plays no part.
ShapeOverride ==
    (pc \notin {"idle", "bbox"} /\ shape # None_ /\ bb # <<>>) =>
        LET r == wcs_bbox_from_shape(shape)
        IN  /\ r.ok
            /\ bb = r.val
            /\ logged = [msg |-> "Bounding box from data shape", bb |-> r.val]

\* C4 -- Default-extent equivalence: a call without shape on an input
\* transform declaring the extent (r, c) has the outcome of the call with
\* shape = (r, c) on the same transforms.
DefaultExtentEquivalence ==
    (pc = "done" /\ shape = None_ /\ IsPair(in_wcs.pixel_shape)) =>
        outcome = CalcPixmap(in_wcs, out_wcs, in_wcs.pixel_shape, seen)

\* a call without shape on an input transform declaring (2, 3) has returned
DefaultExtentWitness ==
    /\ Returned
    /\ shape = None_
    /\ in_wcs.pixel_shape = Tup(<<2, 3>>)
    /\ Len(outcome.val) = 2

\* C5 -- Identity transform: when both transforms are of one coordinate
\* system, the map returned for the extent (r, c) has (j, i) at [i, j], for
\* 0 <= i < r and 0 <= j < c: x (the column) first, y (the row) second.
IdentityTransform ==
    (Returned /\ in_wcs.crval = out_wcs.crval /\ IsPair(Extent)) =>
        LET r == Extent.v[1]
            c == Extent.v[2]
        IN  /\ Len(outcome.val) = r
            /\ \A i \in 1..r : Len(outcome.val[i]) = c
            /\ \A i \in 1..r : \A j \in 1..c : outcome.val[i][j] = <<F(j - 1), F(i - 1)>>

\* the scenario of the specification: shape (3, 3), both transforms of the
\* same (shifted) coordinate system, and the entry at [1, 2] is (2, 1)
IdentityWitness ==
    /\ Returned
    /\ shape = Tup(<<3, 3>>)
    /\ in_wcs.crval = <<1, 2>>
    /\ out_wcs.crval = <<1, 2>>
    /\ outcome.val[2][3] = <<F(2), F(1)>>

\* C6 -- No partial success: nothing reaches the caller before the call
\* ends; a call ends either returning a map with both entries of every grid
\* point, or failing with nothing returned; once a collaborator has failed
\* no map is returned.
NoPartialSuccess ==
    /\ pc # "done" => outcome = Pending
    /\ pc = "done" =>
        \/ /\ outcome.returned
           /\ outcome.err = NoErr
           /\ Len(grid) = 2
           /\ Len(outcome.val) = Len(grid[1])
           /\ \A i \in 1..Len(grid[1]) :
                /\ Len(outcome.val[i]) = Len(grid[1][i])
                /\ \A j \in 1..Len(grid[1][i]) :
                     /\ Len(outcome.val[i][j]) = 2
                     /\ \A k \in 1..2 : outcome.val[i][j][k].nan \in BOOLEAN /\ outcome.val[i][j][k].v \in Int
           /\ \A k \in 1..Len(calls) : calls[k].raised = NoErr
        \/ /\ ~outcome.returned
           /\ outcome.err # NoErr
           /\ outcome.val = <<>>

\* a call has failed in the evaluation of the callable, the grid being there
NoPartialSuccessWitness ==
    /\ pc = "done"
    /\ Len(calls) = 4
    /\ calls[4].raised # NoErr
    /\ Len(grid) = 2

\* C7 -- Collaborator errors verbatim, no retry: an error a collaborator
\* raised ends the call, is the error the caller gets, and no collaborator
\* is invoked twice in a call.
ErrorsVerbatim ==
    /\ \A k \in 1..Len(calls) :
         calls[k].raised # NoErr =>
            /\ pc = "done"
            /\ k = Len(calls)
            /\ ~outcome.returned
            /\ outcome.err = calls[k].raised
    /\ \A k, l \in 1..Len(calls) : calls[k].fn = calls[l].fn => k = l

\* reproject has raised in a call
ErrorsVerbatimWitness ==
    /\ pc = "done"
    /\ Len(calls) = 3
    /\ calls[3] = [fn |-> "reproject", raised |-> Fail("TypeError", "reproject").err]

\* C8 -- Determinism: whatever earlier calls left behind, a call ends with
\* the outcome of the same call made before any other.
Determinism ==
    pc = "done" => outcome = CalcPixmap(in_wcs, out_wcs, shape, NoLog)

\* a call without shape has returned, entered after an earlier call that
\* worked on another bounding box
DeterminismWitness ==
    /\ Returned
    /\ ~Truthy(shape)
    /\ seen # NoLog
    /\ seen.bb # bb

\* C9 -- Pass-through stacking: the callable is reproject(in_wcs, out_wcs),
\* it is applied to (grid[0], grid[1]), and the map returned holds at
\* [r, c] the pair of what it gave at [r, c], whatever that is.
PassThroughStacking ==
    Returned =>
        /\ f = [wcs1 |-> in_wcs, wcs2 |-> out_wcs]
        /\ Len(grid) = 2
        /\ mapped = _reproject(f, grid[1], grid[2]).val
        /\ Len(outcome.val) = Len(mapped[1])
        /\ \A i \in 1..Len(mapped[1]) :
             /\ Len(outcome.val[i]) = Len(mapped[1][i])
             /\ \A j \in 1..Len(mapped[1][i]) :
                  outcome.val[i][j] = <<mapped[1][i][j], mapped[2][i][j]>>

\* a map has been returned that holds not-a-number entries beside numbers
PassThroughWitness ==
    /\ Returned
    /\ \E i \in 1..Len(outcome.val) : \E j \in 1..Len(outcome.val[i]) :
         outcome.val[i][j][1].nan /\ outcome.val[i][j][2].nan
    /\ \E i \in 1..Len(outcome.val) : \E j \in 1..Len(outcome.val[i]) : ~outcome.val[i][j][1].nan

\* C10 -- Step ordering: the collaborators invoked so far in a call are the
\* first ones of the order bounding box, grid, reproject, callable, each
\* once, and all but the last have succeeded.
StepOrdering ==
    /\ Len(calls) <= Len(Order)
    /\ \A k \in 1..Len(calls) :
         /\ calls[k].fn = Order[k]
         /\ k < Len(calls) => calls[k].raised = NoErr

\* the grid could not be generated: the call is over and reproject was not invoked
StepOrderingWitness ==
    /\ pc = "done"
    /\ Len(calls) = 2
    /\ calls[2].raised # NoErr
    /\ f = NoFn

=============================================================================
